---- MODULE Spec2Model ----
(***************************************************************************)
(* Model of urlfile: UrlFile (a random access file backed by http range    *)
(* requests) and BufferedUrlFile (the same with a chunk-aligned LRU cache). *)
(* One reader object is modelled.  Its configuration is chosen in Init and  *)
(* never changes.  A call of read/_data is executed step by step, one step  *)
(* per loop iteration / generator resumption, in program order.             *)
(***************************************************************************)
EXTENDS Integers, Sequences, FiniteSets, TLC

\* ---------------------------------------------------------------- bounds
MaxLength    == 5   \* resource lengths are MaxLength-1 and MaxLength
MaxChunkSize == 3   \* chunk sizes are 2 .. MaxChunkSize
MaxBudget    == 4   \* cache budgets (bytes) are 1 .. MaxBudget
MaxPos       == 6   \* cursor values and get offsets explored are <= MaxPos
MaxSize      == 5   \* sizes passed to read/get are <= MaxSize
MaxRequests  == 2   \* a call starts only while num_requests < MaxRequests

Threads == {"t1", "t2"}   \* call frames that exist
Callers == {"t1"}         \* frames that run in the sequential specification

VARIABLES
  length,               \* self._length   (from the HEAD probe)
  chunk_size,           \* self._chunk_size
  cache_size,           \* maxsize of self._cache (0 for a plain UrlFile)
  verbose,              \* self.verbose
  buffered,             \* TRUE: BufferedUrlFile, FALSE: UrlFile
  pos,                  \* self._pos
  total_bytes_fetched,  \* self._total_bytes_fetched
  num_requests,         \* self._num_requests
  cache,                \* self._cache: entries in recency order, LRU first
  fr                    \* one call frame per thread

config == <<length, chunk_size, cache_size, verbose, buffered>>
vars == <<length, chunk_size, cache_size, verbose, buffered,
          pos, total_bytes_fetched, num_requests, cache, fr>>

Min(a, b) == IF a < b THEN a ELSE b
Max(a, b) == IF a > b THEN a ELSE b

\* ------------------------------------------------------- remote resource
\* The byte stored at offset i of the remote resource (all bytes distinct).
ResourceByte(i) == 10 + i

\* resource[a : b] for 0 <= a, Python slice bounds: bytes a .. b-1 that exist.
ResourceSlice(a, b) ==
  LET hi == Min(b, length)
  IN  IF hi <= a THEN <<>> ELSE [j \in 1..(hi - a) |-> ResourceByte(a + j - 1)]

\* Body of the response to "Range: bytes=start-end" (inclusive end).
ResponseBody(start, end) == ResourceSlice(start, end + 1)

\* response.iter_content(chunk_size): the body cut into chunk_size pieces.
RECURSIVE IterContent(_)
IterContent(body) ==
  IF body = <<>> THEN <<>>
  ELSE IF Len(body) <= chunk_size THEN <<body>>
  ELSE <<SubSeq(body, 1, chunk_size)>>
         \o IterContent(SubSeq(body, chunk_size + 1, Len(body)))

\* ------------------------------------------------------------ python bits
\* buf[lo:hi] with Python's treatment of negative and oversized indices.
PyIndex(n, i) == IF i < 0 THEN Max(i + n, 0) ELSE Min(i, n)
PySlice(buf, lo, hi) ==
  SubSeq(buf, PyIndex(Len(buf), lo) + 1, PyIndex(Len(buf), hi))

\* ------------------------------------------------------------- LRU cache
CacheKeys(c) == {c[i].key : i \in 1..Len(c)}
CacheIndex(c, k) == CHOOSE i \in 1..Len(c) : c[i].key = k
CacheWithout(c, k) == SelectSeq(c, LAMBDA e : e.key # k)

\* getsizeof=lambda _: chunk_size_bytes
GetSizeOfDefault(v) == 1
getsizeof(v) == chunk_size

RECURSIVE CurrSize(_)
CurrSize(c) == IF c = <<>> THEN 0 ELSE getsizeof(Head(c).data) + CurrSize(Tail(c))

\* self._cache[k]: the value; the entry becomes most recently used.
CacheValue(c, k) == c[CacheIndex(c, k)].data
CacheTouchNoPromote(c, k) == c
CacheTouch(c, k) == CacheWithout(c, k) \o <<c[CacheIndex(c, k)]>>

\* popitem() until the new value fits.
RECURSIVE CacheEvict(_, _)
CacheEvict(c, size) ==
  IF c # <<>> /\ CurrSize(c) + size > cache_size
  THEN CacheEvict(Tail(c), size) ELSE c

\* self._cache[k] = v raises ValueError('value too large').
CacheTooLarge(v) == getsizeof(v) > cache_size

\* self._cache[k] = v when it does not raise.
CacheSetItem(c, k, v) ==
  IF k \in CacheKeys(c)
  THEN CacheWithout(c, k) \o <<[key |-> k, data |-> v]>>
  ELSE CacheEvict(c, getsizeof(v)) \o <<[key |-> k, data |-> v]>>

\* ----------------------------------------------------------- pure helpers
\* BufferedUrlFile._align
AlignNone(start) == start
Align(start) == start - (start % chunk_size)

\* _range_request: end = min(self.length - 1, end)
RangeEndUnclamped(end) == end
RangeEnd(end) == Min(length - 1, end)

\* The inner while loop with "range_end <= end" as its bound.
RECURSIVE ScanRangeEndInclusive(_, _, _)
ScanRangeEndInclusive(range_end, end, c) ==
  IF range_end <= end /\ range_end \notin CacheKeys(c)
  THEN ScanRangeEndInclusive(range_end + chunk_size, end, c)
  ELSE range_end

\* inner while loop of _data: first boundary >= range_end that is cached
\* or not below end.
RECURSIVE ScanRangeEnd(_, _, _)
ScanRangeEnd(range_end, end, c) ==
  IF range_end < end /\ range_end \notin CacheKeys(c)
  THEN ScanRangeEnd(range_end + chunk_size, end, c)
  ELSE range_end

\* read(): size = size if size > 0 else self.length - self._pos
ReadSize(size) == IF size > 0 THEN size ELSE length - pos

\* --------------------------------------------------------------- frames
IdleFrame ==
  [pc |-> "idle", kind |-> "none", repeat |-> FALSE,
   start |-> 0, size |-> 0, end |-> 0, offset |-> 0,
   next_start |-> 0, range_end |-> 0,
   fstart |-> 0, fend |-> 0, i |-> 0, stream |-> <<>>,
   buffer |-> <<>>, ret |-> <<>>, err |-> "none",
   reqs |-> <<>>, pos0 |-> 0, cache0 |-> {}]

\* Frame at entry of self._data(start, size), called from read or directly.
DataEntry(kind, repeat, start, size) ==
  IF buffered
  THEN [IdleFrame EXCEPT !.pc = "loop", !.kind = kind, !.repeat = repeat,
          !.start = start, !.size = size,
          !.end = start + size, !.offset = start - Align(start),
          !.next_start = Align(start),
          !.pos0 = pos, !.cache0 = CacheKeys(cache)]
  ELSE [IdleFrame EXCEPT !.pc = "fetch", !.kind = kind, !.repeat = repeat,
          !.start = start, !.size = size,
          !.fstart = start, !.fend = start + size - 1,
          !.pos0 = pos, !.cache0 = CacheKeys(cache)]

Lengths    == {MaxLength - 1, MaxLength}
ChunkSizes == 2..MaxChunkSize
Budgets    == 1..MaxBudget

Init ==
  /\ length \in Lengths
  /\ chunk_size \in ChunkSizes
  /\ verbose \in BOOLEAN
  /\ buffered \in BOOLEAN
  /\ cache_size \in (IF buffered THEN Budgets ELSE {0})
  /\ pos = 0
  /\ total_bytes_fetched = 0
  /\ num_requests = 0
  /\ cache = <<>>
  /\ fr = [t \in Threads |-> IdleFrame]

\* ------------------------------------------------------------- operations
\* The value seek stores in self._pos.
SeekTargetCurAsSet(offset, whence) ==
  IF whence = "SEEK_SET" THEN offset
  ELSE IF whence = "SEEK_CUR" THEN offset
  ELSE length + offset
SeekTarget(offset, whence) ==
  IF whence = "SEEK_SET" THEN offset
  ELSE IF whence = "SEEK_CUR" THEN pos + offset
  ELSE length + offset

\* UrlFile.seek(offset, whence)
Seek(t, offset, whence) ==
  /\ fr[t].pc = "idle"
  /\ SeekTarget(offset, whence) \in (-1)..MaxPos
  /\ pos' = SeekTarget(offset, whence)
  /\ UNCHANGED <<config, total_bytes_fetched, num_requests, cache, fr>>

\* A read that advances the cursor before it fetches.
ReadAdvanceFirst(t, size) ==
  /\ fr[t].pc = "idle"
  /\ num_requests < MaxRequests
  /\ pos >= 0
  /\ pos + ReadSize(size) <= MaxPos
  /\ fr' = [fr EXCEPT ![t] = DataEntry("read", FALSE, pos, ReadSize(size))]
  /\ pos' = pos + ReadSize(size)
  /\ UNCHANGED <<config, total_bytes_fetched, num_requests, cache>>

\* UrlFile.read(size): entry, up to the call of self._data.  Reads with a
\* negative cursor are not explored (their Range header would name a
\* suffix of the resource, not an offset).
Read(t, size) ==
  /\ fr[t].pc = "idle"
  /\ num_requests < MaxRequests
  /\ pos >= 0
  /\ pos + ReadSize(size) <= MaxPos
  /\ fr' = [fr EXCEPT ![t] = DataEntry("read", FALSE, pos, ReadSize(size))]
  /\ UNCHANGED <<config, pos, total_bytes_fetched, num_requests, cache>>

\* self._data(start, size) called directly (the cache layer's get), with a
\* range inside the resource or with size 0; ranges that reach past the
\* end are produced by Read.
Get(t, start, size) ==
  /\ fr[t].pc = "idle"
  /\ num_requests < MaxRequests
  /\ (start + size <= length \/ size = 0)
  /\ fr' = [fr EXCEPT ![t] = DataEntry("get", FALSE, start, size)]
  /\ UNCHANGED <<config, pos, total_bytes_fetched, num_requests, cache>>

\* The caller issues the identical get again right after it returned.
Repeat(t) ==
  /\ fr[t].pc = "done"
  /\ fr[t].kind = "get"
  /\ ~fr[t].repeat
  /\ num_requests < MaxRequests
  /\ fr' = [fr EXCEPT ![t] = DataEntry("get", TRUE, fr[t].start, fr[t].size)]
  /\ UNCHANGED <<config, pos, total_bytes_fetched, num_requests, cache>>

\* BufferedUrlFile._data, outer loop: the chunk at next_start is cached.
LoopHit(t) ==
  LET f == fr[t] IN
  /\ f.pc = "loop"
  /\ f.next_start < f.end
  /\ f.next_start \in CacheKeys(cache)
  /\ cache' = CacheTouch(cache, f.next_start)
  /\ fr' = [fr EXCEPT ![t].buffer = f.buffer \o CacheValue(cache, f.next_start),
                      ![t].next_start = f.next_start + chunk_size]
  /\ UNCHANGED <<config, pos, total_bytes_fetched, num_requests>>

\* BufferedUrlFile._data, outer loop: the chunk is missing; find range_end
\* and call _fetch_and_cache(next_start, range_end - 1).
LoopMiss(t) ==
  LET f == fr[t]
      re == ScanRangeEnd(f.next_start + chunk_size, f.end, cache)
  IN
  /\ f.pc = "loop"
  /\ f.next_start < f.end
  /\ f.next_start \notin CacheKeys(cache)
  /\ fr' = [fr EXCEPT ![t].pc = "fetch", ![t].range_end = re,
                      ![t].fstart = f.next_start, ![t].fend = re - 1]
  /\ UNCHANGED <<config, pos, total_bytes_fetched, num_requests, cache>>

\* Return of _data to its caller; read then advances the cursor by size.
Finish(t, data) ==
  /\ fr' = [fr EXCEPT ![t].pc = "done", ![t].ret = data]
  /\ pos' = IF fr[t].kind = "read" THEN pos + fr[t].size ELSE pos

\* BufferedUrlFile._data: loop exit, return buffer[offset:offset + size].
LoopExit(t) ==
  LET f == fr[t] IN
  /\ f.pc = "loop"
  /\ f.next_start >= f.end
  /\ Finish(t, PySlice(f.buffer, f.offset, f.offset + f.size))
  /\ UNCHANGED <<config, total_bytes_fetched, num_requests, cache>>

\* _range_request: counters, and the range put in the request header.
RangeRequest(t) ==
  LET f == fr[t]
      end == RangeEnd(f.fend)
  IN
  /\ num_requests' = num_requests + 1
  /\ total_bytes_fetched' = total_bytes_fetched + (end - f.fstart + 1)

\* _fetch_data_range, first resumption of the generator: the request is
\* sent and succeeds.  With verbose unset the generator executes
\* "return data_it" and ends without yielding anything.
FetchRequest(t) ==
  LET f == fr[t]
      end == RangeEnd(f.fend)
  IN
  /\ f.pc = "fetch"
  /\ RangeRequest(t)
  /\ fr' = [fr EXCEPT ![t].pc = "stream", ![t].i = 0,
              ![t].reqs = Append(f.reqs, <<f.fstart, end>>),
              ![t].stream = IF verbose
                            THEN IterContent(ResponseBody(f.fstart, end))
                            ELSE <<>>]
  /\ UNCHANGED <<config, pos, cache>>

\* The request fails (session.get or raise_for_status raises).
FetchFail(t) ==
  LET f == fr[t]
      end == RangeEnd(f.fend)
  IN
  /\ f.pc = "fetch"
  /\ RangeRequest(t)
  /\ fr' = [fr EXCEPT ![t].pc = "raised", ![t].err = "TransportError",
              ![t].reqs = Append(f.reqs, <<f.fstart, end>>)]
  /\ UNCHANGED <<config, pos, cache>>

\* One iteration over the generator: _fetch_and_cache stores the chunk in
\* the cache and appends it; UrlFile._data only joins it.
StreamChunk(t) ==
  LET f == fr[t]
      chunk == Head(f.stream)
  IN
  /\ f.pc = "stream"
  /\ f.stream # <<>>
  /\ IF buffered /\ CacheTooLarge(chunk)
     THEN /\ fr' = [fr EXCEPT ![t].pc = "raised", ![t].err = "ValueError"]
          /\ UNCHANGED cache
     ELSE /\ fr' = [fr EXCEPT ![t].buffer = f.buffer \o chunk,
                              ![t].stream = Tail(f.stream),
                              ![t].i = f.i + 1]
          /\ cache' = IF buffered
                      THEN CacheSetItem(cache, f.fstart + f.i * chunk_size, chunk)
                      ELSE cache
  /\ UNCHANGED <<config, pos, total_bytes_fetched, num_requests>>

\* The response stream breaks while a chunk is being read.
StreamFail(t) ==
  LET f == fr[t] IN
  /\ f.pc = "stream"
  /\ f.stream # <<>>
  /\ fr' = [fr EXCEPT ![t].pc = "raised", ![t].err = "TransportError"]
  /\ UNCHANGED <<config, pos, total_bytes_fetched, num_requests, cache>>

\* The generator is exhausted: _fetch_and_cache returns and _data goes on
\* with next_start = range_end.
StreamEndBuffered(t) ==
  LET f == fr[t] IN
  /\ f.pc = "stream"
  /\ f.stream = <<>>
  /\ buffered
  /\ fr' = [fr EXCEPT ![t].pc = "loop", ![t].next_start = f.range_end]
  /\ UNCHANGED <<config, pos, total_bytes_fetched, num_requests, cache>>

\* The generator is exhausted: UrlFile._data returns the joined bytes.
StreamEndPlain(t) ==
  LET f == fr[t] IN
  /\ f.pc = "stream"
  /\ f.stream = <<>>
  /\ ~buffered
  /\ Finish(t, f.buffer)
  /\ UNCHANGED <<config, total_bytes_fetched, num_requests, cache>>

\* The caller has the result (or the exception) of the call.
Return(t) ==
  /\ fr[t].pc \in {"done", "raised"}
  /\ fr' = [fr EXCEPT ![t] = IdleFrame]
  /\ UNCHANGED <<config, pos, total_bytes_fetched, num_requests, cache>>

Whences == {"SEEK_SET", "SEEK_CUR", "SEEK_END"}

Next ==
  \E t \in Callers :
    \/ \E offset \in (-MaxPos)..MaxPos, whence \in Whences : Seek(t, offset, whence)
    \/ \E size \in (-1)..MaxSize : Read(t, size)
    \/ \E start \in 0..MaxPos, size \in 0..MaxSize : Get(t, start, size)
    \/ Repeat(t)
    \/ LoopHit(t)
    \/ LoopMiss(t)
    \/ LoopExit(t)
    \/ FetchRequest(t)
    \/ FetchFail(t)
    \/ StreamChunk(t)
    \/ StreamFail(t)
    \/ StreamEndBuffered(t)
    \/ StreamEndPlain(t)
    \/ Return(t)

Spec == Init /\ [][Next]_vars

\* ------------------------------------------------------------ construction
\* Responses of the HEAD probe: the request fails or succeeds, and the
\* headers Content-Length and Accept-Ranges are present or not.
ProbeResponses ==
  [ok : BOOLEAN,
   has_length : BOOLEAN,
   content_length : Lengths,
   accept_ranges : {"bytes", "none", "absent"}]

\* head.headers.get('Accept-Ranges', 'none')
AcceptRanges(resp) ==
  IF resp.accept_ranges = "absent" THEN "none" ELSE resp.accept_ranges

\* 'bytes' not in head.headers.get('Accept-Ranges', 'none')
RangesUnsupportedNever(resp) == FALSE
RangesUnsupported(resp) == AcceptRanges(resp) # "bytes"

\* Frame of a caller while no reader object exists yet.
NewFrame == [IdleFrame EXCEPT !.pc = "new"]

\* Frame of a caller whose constructor call raised err.
CtorRaised(err) == [IdleFrame EXCEPT !.pc = "ctor_raised", !.err = err]

\* State before UrlFile.__init__ / BufferedUrlFile.__init__ runs: the
\* options are chosen, the length is not known (-1).
InitProbe ==
  /\ length = -1
  /\ chunk_size \in ChunkSizes
  /\ verbose \in BOOLEAN
  /\ buffered \in BOOLEAN
  /\ cache_size \in (IF buffered THEN Budgets ELSE {0})
  /\ pos = 0
  /\ total_bytes_fetched = 0
  /\ num_requests = 0
  /\ cache = <<>>
  /\ fr = [t \in Threads |-> NewFrame]

\* UrlFile.__init__: the HEAD probe and what the constructor does with it.
Construct(resp) ==
  /\ \A t \in Threads : fr[t].pc = "new"
  /\ IF ~resp.ok
     THEN /\ fr' = [t \in Threads |-> CtorRaised("TransportError")]
          /\ UNCHANGED length
     ELSE IF ~resp.has_length
     THEN /\ fr' = [t \in Threads |-> CtorRaised("KeyError")]
          /\ UNCHANGED length
     ELSE /\ length' = resp.content_length
          /\ fr' = IF RangesUnsupported(resp)
                   THEN [t \in Threads |-> CtorRaised("HTTPRangeRequestUnsupported")]
                   ELSE [t \in Threads |-> IdleFrame]
  /\ UNCHANGED <<chunk_size, cache_size, verbose, buffered,
                 pos, total_bytes_fetched, num_requests, cache>>

NextProbe ==
  \/ \E resp \in ProbeResponses : Construct(resp)
  \/ Next

SpecProbe == InitProbe /\ [][NextProbe]_vars

\* ---------------------------------------------------------------- scenario
\* The scenario "length 10,000,000, chunk size 1,048,576, budget 3 chunks;
\* get(0, 2,000,000) twice, then get(5,000,000, 1)", with every byte count
\* scaled from a chunk of 1,048,576 bytes to a chunk of cs bytes.
ScenarioChunkSizes == {2, 3, 4}
ScenarioLength(cs) == (10000000 * cs) \div 1048576
ScenarioFirstSize(cs) == (2000000 * cs) \div 1048576
ScenarioThirdStart(cs) == (5000000 * cs) \div 1048576

\* BufferedUrlFile(url, chunk_size_bytes=cs, cache_size_bytes=3 * cs).
InitScenario ==
  /\ chunk_size \in ScenarioChunkSizes
  /\ length = ScenarioLength(chunk_size)
  /\ cache_size = 3 * chunk_size
  /\ verbose \in BOOLEAN
  /\ buffered = TRUE
  /\ pos = 0
  /\ total_bytes_fetched = 0
  /\ num_requests = 0
  /\ cache = <<>>
  /\ fr = [t \in Threads |-> IdleFrame]

\* The first call, on the fresh reader: _data(0, 2,000,000 scaled).
ScenarioFirst(t) ==
  /\ fr[t].pc = "idle"
  /\ num_requests = 0
  /\ fr' = [fr EXCEPT ![t] =
              DataEntry("get", FALSE, 0, ScenarioFirstSize(chunk_size))]
  /\ UNCHANGED <<config, pos, total_bytes_fetched, num_requests, cache>>

\* The first call again, issued when the first call has returned.
ScenarioRepeat(t) ==
  /\ fr[t].start = 0
  /\ Repeat(t)

\* The third call, issued when the repeated first call has returned:
\* _data(5,000,000 scaled, 1).
ScenarioThird(t) ==
  /\ fr[t].pc = "done"
  /\ fr[t].repeat
  /\ fr' = [fr EXCEPT ![t] =
              DataEntry("get", FALSE, ScenarioThirdStart(chunk_size), 1)]
  /\ UNCHANGED <<config, pos, total_bytes_fetched, num_requests, cache>>

NextScenario ==
  \E t \in Callers :
    \/ ScenarioFirst(t)
    \/ ScenarioRepeat(t)
    \/ ScenarioThird(t)
    \/ LoopHit(t)
    \/ LoopMiss(t)
    \/ LoopExit(t)
    \/ FetchRequest(t)
    \/ FetchFail(t)
    \/ StreamChunk(t)
    \/ StreamFail(t)
    \/ StreamEndBuffered(t)
    \/ Return(t)

SpecScenario == InitScenario /\ [][NextScenario]_vars

\* ------------------------------------------------------------- concurrency
\* Two threads call _data on one BufferedUrlFile.  The code takes no lock,
\* so the threads interleave between statements; the test
\* "next_start in self._cache" and the read "self._cache[next_start]" of
\* the hit branch are separate steps here.  Each call asks for bytes of one
\* of the first two chunks.
InitConc ==
  /\ Init
  /\ buffered
  /\ verbose
  /\ cache_size >= chunk_size

\* "if next_start in self._cache:" evaluates to True.
HitCheck(t) ==
  LET f == fr[t] IN
  /\ f.pc = "loop"
  /\ f.next_start < f.end
  /\ f.next_start \in CacheKeys(cache)
  /\ fr' = [fr EXCEPT ![t].pc = "hit"]
  /\ UNCHANGED <<config, pos, total_bytes_fetched, num_requests, cache>>

\* "buffer += self._cache[next_start]; next_start += self._chunk_size":
\* the lookup raises KeyError when the entry is gone by now.
HitRead(t) ==
  LET f == fr[t] IN
  /\ f.pc = "hit"
  /\ IF f.next_start \in CacheKeys(cache)
     THEN /\ cache' = CacheTouch(cache, f.next_start)
          /\ fr' = [fr EXCEPT ![t].pc = "loop",
                      ![t].buffer = f.buffer \o CacheValue(cache, f.next_start),
                      ![t].next_start = f.next_start + chunk_size]
     ELSE /\ fr' = [fr EXCEPT ![t].pc = "raised", ![t].err = "KeyError"]
          /\ UNCHANGED cache
  /\ UNCHANGED <<config, pos, total_bytes_fetched, num_requests>>

NextConc ==
  \E t \in Threads :
    \/ \E start \in {0, chunk_size}, size \in 1..chunk_size : Get(t, start, size)
    \/ HitCheck(t)
    \/ HitRead(t)
    \/ LoopMiss(t)
    \/ LoopExit(t)
    \/ FetchRequest(t)
    \/ StreamChunk(t)
    \/ StreamEndBuffered(t)
    \/ Return(t)

SpecConc == InitConc /\ [][NextConc]_vars

\* ----------------------------------------------------------------- claims
\* The call in frame f asked for a range inside the resource.
ValidRange(f) == f.start >= 0 /\ f.size >= 0 /\ f.start + f.size <= length

\* Chunk boundaries walked by _data for frame f.
Window(f) == {b \in Align(f.start)..(f.end - 1) : b % chunk_size = 0}

\* Maximal runs of window chunks that were missing when the call started:
\* one per missing boundary whose predecessor is cached or outside the window.
MissingRuns(f) ==
  Cardinality({b \in Window(f) :
                 /\ b \notin f.cache0
                 /\ (b - chunk_size \notin Window(f) \/ b - chunk_size \in f.cache0)})

\* C1: a buffered get of a valid range that returns, returns exactly the
\* bytes [start, start + size) of the resource.
C1_Exactness ==
  \A t \in Threads :
    (buffered /\ fr[t].pc = "done" /\ ValidRange(fr[t]))
      => fr[t].ret = ResourceSlice(fr[t].start, fr[t].start + fr[t].size)

\* C2: an identical get repeated right after a get returned issues no fetch
\* when the chunks of its window fit in the cache budget.
C2_IdempotentHit ==
  \A t \in Threads :
    (/\ buffered /\ fr[t].pc = "done" /\ fr[t].kind = "get" /\ fr[t].repeat
     /\ ValidRange(fr[t])
     /\ Cardinality(Window(fr[t])) * chunk_size <= cache_size)
      => fr[t].reqs = <<>>

\* C3: a get that returns has issued exactly as many fetches as its window
\* had maximal runs of missing chunks when it was called.
C3_RoundTrips ==
  \A t \in Threads :
    (buffered /\ fr[t].pc = "done" /\ ValidRange(fr[t]))
      => Len(fr[t].reqs) = MissingRuns(fr[t])

\* C4: in every state, also between the inserts of one fetched run, the
\* number of cache entries times the chunk size is at most the budget.
C4_Budget == Len(cache) * chunk_size <= cache_size

\* C4 witness: in the middle of inserting a run, a later chunk of the run
\* has pushed out the run's first chunk.
C4_Witness ==
  \E t \in Threads :
    /\ buffered /\ fr[t].pc = "stream" /\ fr[t].i >= 2
    /\ fr[t].fstart \notin CacheKeys(cache)
    /\ Len(cache) >= 1

\* C5: a read of size > 0 with the cursor at pos <= length and
\* pos + size > length returns exactly the length - pos remaining bytes.
C5_Truncation ==
  \A t \in Threads :
    (/\ fr[t].pc = "done" /\ fr[t].kind = "read" /\ fr[t].size > 0
     /\ fr[t].pos0 <= length /\ fr[t].pos0 + fr[t].size > length)
      => fr[t].ret = ResourceSlice(fr[t].pos0, length)

\* C6: when the fetch of a run fails, no chunk of that run is in the cache
\* unless it was there when the call started.
C6_NoPartialRun ==
  \A t \in Threads :
    (buffered /\ fr[t].pc = "raised" /\ fr[t].err = "TransportError")
      => \A k \in CacheKeys(cache) :
           (fr[t].fstart <= k /\ k < fr[t].range_end) => k \in fr[t].cache0

\* C7: a call of size 0 issues no fetch and returns the empty result.
C7_ZeroSize ==
  \A t \in Threads :
    (fr[t].pc # "idle" /\ fr[t].size = 0)
      => /\ fr[t].pc \notin {"fetch", "stream", "raised"}
         /\ fr[t].reqs = <<>>
         /\ (fr[t].pc = "done" => fr[t].ret = <<>>)

\* C8: every range request sent has its inclusive end at most length - 1,
\* every streamed chunk and every returned byte is a byte of the resource,
\* and a call returns at most the bytes that exist from its start offset.
C8_Clamping ==
  \A t \in Threads :
    /\ \A j \in 1..Len(fr[t].reqs) : fr[t].reqs[j][2] <= length - 1
    /\ \A j \in 1..Len(fr[t].ret) :
         fr[t].ret[j] \in {ResourceByte(o) : o \in 0..(length - 1)}
    /\ fr[t].pc = "done" => Len(fr[t].ret) <= Max(0, length - fr[t].start)

\* C8 witness: a request whose end was asked past the resource has been
\* sent with end = length - 1 and its final, truncated chunk is streaming.
C8_Witness ==
  \E t \in Threads :
    /\ fr[t].pc = "stream" /\ fr[t].stream # <<>>
    /\ fr[t].fend > length - 1 /\ fr[t].fstart < length
    /\ fr[t].reqs # <<>>
    /\ fr[t].reqs[Len(fr[t].reqs)] = <<fr[t].fstart, length - 1>>

\* C9: the cursor always satisfies 0 <= pos <= length.
C9_Cursor == 0 <= pos /\ pos <= length

\* C10: no step decreases num_requests or total_bytes_fetched, and a fetch
\* adds 1 request and the byte count of the requested range.
C10_Counters ==
  [][/\ num_requests' >= num_requests
     /\ total_bytes_fetched' >= total_bytes_fetched
     /\ (num_requests' # num_requests =>
           /\ num_requests' = num_requests + 1
           /\ \E t \in Threads :
                /\ fr[t].pc = "fetch"
                /\ total_bytes_fetched' - total_bytes_fetched
                     = Max(0, RangeEnd(fr[t].fend) - fr[t].fstart + 1))]_vars

\* C11: with a cache budget smaller than the chunk size no call fails
\* because of the cache, and a get of a valid range that returns, returns
\* the requested bytes.
C11_UndersizedBudget ==
  \A t \in Threads :
    (buffered /\ cache_size < chunk_size)
      => /\ fr[t].err # "ValueError"
         /\ (fr[t].pc = "done" /\ ValidRange(fr[t]))
              => fr[t].ret = ResourceSlice(fr[t].start, fr[t].start + fr[t].size)

\* C13: a read to the end (size omitted or not positive, so that
\* size = length - pos) with the cursor in [0, length] returns the bytes from
\* the cursor to the end and leaves the cursor at length.
C13_ReadToEnd ==
  \A t \in Threads :
    (/\ fr[t].pc = "done" /\ fr[t].kind = "read"
     /\ 0 <= fr[t].pos0 /\ fr[t].pos0 <= length
     /\ fr[t].size = length - fr[t].pos0)
      => /\ fr[t].ret = ResourceSlice(fr[t].pos0, length)
         /\ pos = length

\* C14: seek(offset, whence) leaves the cursor at offset, pos + offset or
\* length + offset for Start, Current and End, whatever the result, and
\* changes neither the cache nor the counters.
C14_Seek ==
  [][\A t \in Threads, offset \in (-MaxPos)..MaxPos, whence \in Whences :
       Seek(t, offset, whence)
         => /\ pos' = CASE whence = "SEEK_SET" -> offset
                        [] whence = "SEEK_CUR" -> pos + offset
                        [] whence = "SEEK_END" -> length + offset
            /\ UNCHANGED <<cache, num_requests, total_bytes_fetched>>]_vars

\* C14 witness: seeks alone (no request was ever sent) have put the cursor
\* outside the resource.
C14_Witness ==
  /\ (pos > length \/ pos < 0)
  /\ num_requests = 0
  /\ \A t \in Threads : fr[t].pc = "idle"

\* The cache key written by a StreamChunk step of frame f.
InsertKey(f) == f.fstart + f.i * chunk_size

\* Window chunks the call of frame f has already hit or inserted.
Touched(f) == {b \in Window(f) : b < InsertKey(f)}

\* C16: a cache hit makes the chunk the most recently used entry and keeps
\* the order of the others; an insert succeeds when the budget holds at least
\* one chunk, makes the new chunk resident as most
\* recently used and evicts only least recently used entries: the survivors
\* are the most recent entries in unchanged order, and no chunk used by this
\* call is evicted while a chunk it has not used stays.
C16_LRU ==
  [][\A t \in Threads :
       /\ LoopHit(t)
            => /\ cache'[Len(cache')].key = fr[t].next_start
               /\ CacheWithout(cache', fr[t].next_start)
                    = CacheWithout(cache, fr[t].next_start)
       /\ (StreamChunk(t) /\ buffered /\ cache_size >= chunk_size)
            => fr'[t].pc = "stream"
       /\ (StreamChunk(t) /\ buffered /\ fr'[t].pc = "stream"
             /\ InsertKey(fr[t]) \notin CacheKeys(cache))
            => LET n == Len(cache')
                   evicted == CacheKeys(cache) \ CacheKeys(cache')
               IN  /\ cache'[n].key = InsertKey(fr[t])
                   /\ SubSeq(cache', 1, n - 1)
                        = SubSeq(cache, Len(cache) - n + 2, Len(cache))
                   /\ (evicted \cap Touched(fr[t]) # {})
                        => CacheKeys(cache') \subseteq
                             (Touched(fr[t]) \cup {InsertKey(fr[t])})]_vars

\* C16 witness: an insert has evicted one chunk that was resident when the
\* call started while another such chunk is still resident.
C16_Witness ==
  \E t \in Threads :
    /\ fr[t].pc = "stream" /\ fr[t].i >= 1
    /\ \E k1 \in fr[t].cache0 : k1 \notin CacheKeys(cache)
    /\ \E k2 \in fr[t].cache0 : k2 \in CacheKeys(cache)

\* C18: once a fetch has failed during a read, the cursor is where it was
\* before the call, and the call does nothing more: no further request is
\* sent and the exception reaches the caller.
C18_FailedRead ==
  [][\A t \in Threads :
       (fr[t].pc = "raised" /\ fr[t].kind = "read" /\ fr[t].err = "TransportError")
         => /\ pos = fr[t].pos0
            /\ pos' = pos
            /\ num_requests' = num_requests
            /\ fr'[t].pc \in {"raised", "idle"}]_vars

\* C18 witness: a read of size > 0 has failed after part of the response
\* was already streamed.
C18_Witness ==
  \E t \in Threads :
    /\ fr[t].pc = "raised" /\ fr[t].kind = "read" /\ fr[t].err = "TransportError"
    /\ fr[t].size > 0 /\ fr[t].buffer # <<>>

\* C20: every cache key is a multiple of the chunk size below length and
\* its content is the resource bytes [key, min(key + chunk_size, length)).
C20_CacheContent ==
  \A j \in 1..Len(cache) :
    /\ cache[j].key % chunk_size = 0
    /\ 0 <= cache[j].key /\ cache[j].key < length
    /\ cache[j].data = ResourceSlice(cache[j].key, cache[j].key + chunk_size)

\* C20 witness: the final, truncated chunk is resident next to another one.
C20_Witness ==
  /\ Len(cache) >= 2
  /\ \E j \in 1..Len(cache) : cache[j].key + chunk_size > length

\* C15: the constructor raises the range-unsupported error exactly when the
\* probe succeeded (response ok, length declared) and the remote does not
\* advertise byte ranges; a failed probe raises the transport error; and
\* whenever the constructor raised there is no reader: no request has been
\* or will be sent.
C15_Probe ==
  [][/\ \A resp \in ProbeResponses :
          Construct(resp)
            => /\ (\A t \in Threads : fr'[t].err = "HTTPRangeRequestUnsupported")
                    <=> (/\ resp.ok /\ resp.has_length
                         /\ resp.accept_ranges # "bytes")
               /\ ~resp.ok => \A t \in Threads : fr'[t].err = "TransportError"
               /\ (\E t \in Threads : fr'[t].err # "none")
                    => /\ \A t \in Threads : fr'[t].pc = "ctor_raised"
                       /\ num_requests' = 0
     /\ (\E t \in Threads : fr[t].pc = "ctor_raised") => UNCHANGED vars]_vars

\* C15 witness: the constructor has raised the range-unsupported error.
C15_Witness ==
  \A t \in Threads :
    /\ fr[t].pc = "ctor_raised"
    /\ fr[t].err = "HTTPRangeRequestUnsupported"
    /\ length \in Lengths

\* The third call of the scenario has returned in frame f.
ThirdDone(f) ==
  /\ f.pc = "done" /\ f.kind = "get" /\ ~f.repeat
  /\ f.start = ScenarioThirdStart(chunk_size) /\ f.size = 1

\* C12 as stated: the third get of the scenario issues exactly 1 fetch and
\* evicts the least recently used of the first two chunks (chunk 0, which
\* the repeated first get hit before the chunk at chunk_size).
C12_ScenarioEvicts ==
  \A t \in Threads :
    ThirdDone(fr[t])
      => /\ Len(fr[t].reqs) = 1
         /\ 0 \notin CacheKeys(cache)

\* C12 amended: the third get of the scenario issues exactly 1 fetch and
\* evicts nothing: every chunk resident when it was called is still
\* resident when it returns, within the budget of 3 chunks.
C12_ScenarioNoEviction ==
  \A t \in Threads :
    ThirdDone(fr[t])
      => /\ Len(fr[t].reqs) = 1
         /\ fr[t].cache0 \subseteq CacheKeys(cache)
         /\ Len(cache) * chunk_size <= cache_size

\* C12 witness: the third get has returned with the first two chunks and
\* its own chunk resident.
C12_Witness ==
  \E t \in Threads :
    /\ ThirdDone(fr[t])
    /\ fr[t].cache0 = {0, chunk_size}
    /\ CacheKeys(cache)
         = {0, chunk_size, Align(ScenarioThirdStart(chunk_size))}

\* C17: when two gets run concurrently on one cache, no call fails (no
\* transport failure occurs in these runs) and every get of a valid range
\* that returns, returns exactly the requested bytes.
C17_AtomicGet ==
  \A t \in Threads :
    /\ fr[t].pc # "raised"
    /\ (fr[t].pc = "done" /\ ValidRange(fr[t]))
         => fr[t].ret = ResourceSlice(fr[t].start, fr[t].start + fr[t].size)

\* b''.join(chunks)
RECURSIVE Join(_)
Join(chunks) ==
  IF chunks = <<>> THEN <<>> ELSE Head(chunks) \o Join(Tail(chunks))

\* What UrlFile._data returns for the request of frame f when the reader
\* was constructed with verbose set: the generator yields every piece of
\* iter_content and _data joins them.
VerboseResult(f) ==
  Join(IterContent(ResponseBody(f.reqs[1][1], f.reqs[1][2])))

\* C19: a read of the unbuffered reader that returns, returns the bytes
\* the same read returns on a reader constructed with verbose set.
C19_VerboseObservational ==
  \A t \in Threads :
    (~buffered /\ fr[t].pc = "done" /\ fr[t].kind = "read"
       /\ Len(fr[t].reqs) = 1)
      => fr[t].ret = VerboseResult(fr[t])

====
